---- MODULE Spec2Model ----
(***************************************************************************)
(* Persistent process manager of spine_engine                              *)
(* (execution_managers/persistent_execution_manager.py).                   *)
(*                                                                         *)
(* Two layers are modelled:                                                *)
(*   - the registry _PersistentManagerFactory (new_persistent_manager,     *)
(*     restart_persistent), with the Popen handles of the managers it      *)
(*     creates: specifications SpecRegistry and SpecRegistrySerial;        *)
(*   - one PersistentManagerBase object with its OS process, its pipes,    *)
(*     its drain threads and the issue_command protocol: specifications    *)
(*     Spec and SpecSerial.                                                *)
(* On top of the manager: SpecRun (a PersistentExecutionManagerBase with   *)
(* run_until_complete, stop_execution and the interrupt threads), SpecKeyed *)
(* (the registry's restart, interrupt and issue by key), and              *)
(* SpecSerialFair (SpecSerial with the manager's threads scheduled         *)
(* fairly).                                                                *)
(* The "Serial" specifications restrict the callers to non-overlapping     *)
(* calls; the others let the callers' threads interleave freely, as the    *)
(* code does (it holds no lock).                                           *)
(***************************************************************************)
EXTENDS Integers, Sequences, FiniteSets, TLC

(***************************************************************************)
(* Bounds                                                                  *)
(***************************************************************************)
\* Popen handles the registry layer may create.
MaxPM == 2

\* issue_command calls made on the modelled manager.
MaxIssues == 2

\* restart_persistent calls made on the modelled manager.
MaxRestarts == 1

\* Writes the stdin BufferedWriter can hold before it must write through.
BufCap == 1

\* interrupt_persistent calls made on the modelled manager.
MaxInterrupts == 1

\* Bound on the number of arguments given to one expand_cmd_line_args call.
MaxArgs == 4

Callers == {1, 2}

(***************************************************************************)
(* Values                                                                  *)
(***************************************************************************)
None == "None"
NoPM == 0

Languages == {"python", "julia"}

\* PythonPersistentManager._extra_args / JuliaPersistentManager._extra_args
extra_args(language) ==
    IF language = "python" THEN <<"-c", "import socket">>
    ELSE <<"-e", "using Sockets">>

ArgLists == {<<"x">>}
Groups == {None, "g1", "g2"}

\* key = tuple(args + [group_id])
LaunchKey(args, group_id) == Append(args, group_id)

Keys == {LaunchKey(a, g) : a \in ArgLists, g \in Groups \ {None}}

\* The (constructor, group_id) pairs the callers ask for: isolated, two
\* groups, and one group asked for with both adapters.
Requests ==
    {<<"python", None>>, <<"python", "g1">>, <<"julia", "g1">>, <<"python", "g2">>}

VARIABLES
    \* ---- registry layer
    persistent_managers,   \* _PersistentManagerFactory._persistent_managers
    pms,                   \* the manager objects constructed so far
    acall,                 \* per caller: its new_persistent_manager call
    rcall,                 \* the thread running the registry's restart_persistent(key)
    \* ---- one manager (a PythonPersistentManager) and its OS process
    persistent,            \* self._persistent: the Popen handle and its process
    stdin,                 \* self._persistent.stdin: BufferedWriter buffer, OS pipe
    outs,                  \* per Popen ever launched: unread stdout / stderr lines
    msg_queue,             \* self._msg_queue
    command_successful,    \* self.command_successful
    idle,                  \* self._idle
    consumer,              \* per caller: the issue_command generator it iterates
    worker,                \* per caller: thread t (_issue_command_and_wait_for_finish)
    listener,              \* per caller: thread _listen_and_enqueue and its queue
    restarting,            \* a thread is inside restart_persistent
    hist,                  \* counters, and which issues were written and finished
    \* ---- the users of the manager
    run,                   \* a PersistentExecutionManagerBase and its run_until_complete
    signaller,             \* the _do_interrupt_persistent threads started so far
    kcall,                 \* the last call made on the registry with a key
    \* ---- project_item_resource.py
    expansion              \* one call of expand_cmd_line_args and its locals

regVars == <<persistent_managers, pms, acall, rcall>>

mgrVars == <<persistent, stdin, outs, msg_queue, command_successful, idle,
             consumer, worker, listener, restarting, hist>>

exeVars == <<run, signaller, kcall>>

argVars == <<expansion>>

vars == <<regVars, mgrVars, exeVars, argVars>>

(***************************************************************************)
(* Registry layer: _PersistentManagerFactory                               *)
(***************************************************************************)
PMs == 1..Len(pms)

\* PersistentManagerBase.__init__ as far as the registry sees it: the object
\* keeps args and owns a freshly launched Popen whose returncode is None.
NewPM(constructor, args) ==
    [own_args   |-> args,
     language   |-> constructor,
     exited     |-> FALSE,
     returncode |-> None]

is_persistent_alive(i) == pms[i].returncode = None

IdleCall ==
    [pc |-> "idle", constructor |-> "python", args |-> <<>>, group_id |-> None,
     found |-> NoPM, created |-> NoPM, pm |-> NoPM, ret |-> NoPM, events |-> <<>>]

KeyOf(c) == LaunchKey(acall[c].args, acall[c].group_id)

\* A slip that constructs on every call.
NeedsNewAlways(key) == TRUE

\* line 254: key not in self._persistent_managers or not ...[key].is_persistent_alive()
NeedsNew(key) ==
    \/ persistent_managers[key] = NoPM
    \/ ~is_persistent_alive(persistent_managers[key])

\* new_persistent_manager is entered (line 250): isolated or pooled.
Call(c, constructor, args, group_id) ==
    /\ acall[c].pc \in {"idle", "done", "raised"}
    /\ acall' = [acall EXCEPT ![c] =
                    [IdleCall EXCEPT !.pc = IF group_id = None THEN "isolated" ELSE "check",
                                     !.constructor = constructor,
                                     !.args = args,
                                     !.group_id = group_id]]
    /\ UNCHANGED <<persistent_managers, pms, rcall>>

\* A slip that pools the isolated manager under a group.
IsolatedRegistryPooled(args, i) ==
    [persistent_managers EXCEPT ![LaunchKey(args, "g1")] = i]

\* The registry after line 252 returned the manager i built from args:
\* the isolated branch never touches self._persistent_managers.
IsolatedRegistry(args, i) == persistent_managers

\* line 252: return constructor(args, cwd=cwd); an OSError is not caught here.
Isolated(c) ==
    /\ acall[c].pc = "isolated"
    /\ \/ /\ Len(pms) < MaxPM
          /\ pms' = Append(pms, NewPM(acall[c].constructor, acall[c].args))
          /\ persistent_managers' = IsolatedRegistry(acall[c].args, Len(pms) + 1)
          /\ acall' = [acall EXCEPT ![c].pc = "done",
                                    ![c].created = Len(pms) + 1,
                                    ![c].ret = Len(pms) + 1]
       \/ /\ acall' = [acall EXCEPT ![c].pc = "raised"]
          /\ UNCHANGED <<pms, persistent_managers>>
    /\ UNCHANGED rcall

\* The live manager stored under key, NoPM when there is none.
LiveEntry(key) ==
    IF persistent_managers[key] # NoPM /\ is_persistent_alive(persistent_managers[key])
    THEN persistent_managers[key]
    ELSE NoPM

\* line 254; found records what the registry held for the key at this moment.
Check(c) ==
    /\ acall[c].pc = "check"
    /\ acall' = [acall EXCEPT ![c].pc = IF NeedsNew(KeyOf(c)) THEN "construct" ELSE "read",
                              ![c].found = LiveEntry(KeyOf(c))]
    /\ UNCHANGED <<persistent_managers, pms, rcall>>

FailedToStart(c) ==
    [type |-> "persistent_failed_to_start", args |-> acall[c].args, error |-> "OSError"]

\* lines 255-260: construct and store under the key, or report the OSError.
Construct(c) ==
    /\ acall[c].pc = "construct"
    /\ \/ /\ Len(pms) < MaxPM
          /\ pms' = Append(pms, NewPM(acall[c].constructor, acall[c].args))
          /\ persistent_managers' =
                 [persistent_managers EXCEPT ![KeyOf(c)] = Len(pms) + 1]
          /\ acall' = [acall EXCEPT ![c].pc = "read", ![c].created = Len(pms) + 1]
       \/ /\ acall' = [acall EXCEPT ![c].pc = "done",
                                    ![c].ret = NoPM,
                                    ![c].events = Append(@, FailedToStart(c))]
          /\ UNCHANGED <<pms, persistent_managers>>
    /\ UNCHANGED rcall

\* line 261: pm = self._persistent_managers[key]
Read(c) ==
    /\ acall[c].pc = "read"
    /\ acall' = [acall EXCEPT ![c].pc = "emit", ![c].pm = persistent_managers[KeyOf(c)]]
    /\ UNCHANGED <<persistent_managers, pms, rcall>>

Started(c) ==
    [type |-> "persistent_started", key |-> KeyOf(c),
     language |-> pms[acall[c].pm].language]

\* lines 262-264
Emit(c) ==
    /\ acall[c].pc = "emit"
    /\ acall' = [acall EXCEPT ![c].pc = "done",
                              ![c].ret = acall[c].pm,
                              ![c].events = Append(@, Started(c))]
    /\ UNCHANGED <<persistent_managers, pms, rcall>>

\* _PersistentManagerFactory.restart_persistent, lines 272-275
RestartCall(key) ==
    /\ rcall.pc = "idle"
    /\ rcall' = IF persistent_managers[key] = NoPM
                THEN rcall
                ELSE [pc |-> "kill", pm |-> persistent_managers[key]]
    /\ UNCHANGED <<persistent_managers, pms, acall>>

\* PersistentManagerBase.restart_persistent, lines 174-175: kill() and wait()
RestartKill ==
    /\ rcall.pc = "kill"
    /\ pms' = [pms EXCEPT ![rcall.pm].exited = TRUE, ![rcall.pm].returncode = "killed"]
    /\ rcall' = [rcall EXCEPT !.pc = "launch"]
    /\ UNCHANGED <<persistent_managers, acall>>

\* line 176: self._persistent = Popen(...): a new handle, returncode None
RestartLaunch ==
    /\ rcall.pc = "launch"
    /\ pms' = [pms EXCEPT ![rcall.pm].exited = FALSE,
                          ![rcall.pm].returncode = None]
    /\ rcall' = [pc |-> "idle", pm |-> NoPM]
    /\ UNCHANGED <<persistent_managers, acall>>

\* The OS process of a pooled manager exits on its own (crash, external
\* kill); nothing polls it, so returncode stays as it is.  (This layer never
\* reads the process of a manager that is not stored in the registry.)
Exit(i) ==
    /\ \E k \in Keys : persistent_managers[k] = i
    /\ ~pms[i].exited
    /\ pms' = [pms EXCEPT ![i].exited = TRUE]
    /\ UNCHANGED <<persistent_managers, acall, rcall>>

InitRegistry ==
    /\ persistent_managers = [k \in Keys |-> NoPM]
    /\ pms = <<>>
    /\ acall = [c \in Callers |-> IdleCall]
    /\ rcall = [pc |-> "idle", pm |-> NoPM]

NextRegistry ==
    \/ \E c \in Callers, r \in Requests, a \in ArgLists : Call(c, r[1], a, r[2]) /\ UNCHANGED <<mgrVars, exeVars, argVars>>
    \/ \E c \in Callers : Isolated(c) /\ UNCHANGED <<mgrVars, exeVars, argVars>>
    \/ \E c \in Callers : Check(c) /\ UNCHANGED <<mgrVars, exeVars, argVars>>
    \/ \E c \in Callers : Construct(c) /\ UNCHANGED <<mgrVars, exeVars, argVars>>
    \/ \E c \in Callers : Read(c) /\ UNCHANGED <<mgrVars, exeVars, argVars>>
    \/ \E c \in Callers : Emit(c) /\ UNCHANGED <<mgrVars, exeVars, argVars>>
    \/ \E k \in Keys : RestartCall(k) /\ UNCHANGED <<mgrVars, exeVars, argVars>>
    \/ RestartKill /\ UNCHANGED <<mgrVars, exeVars, argVars>>
    \/ RestartLaunch /\ UNCHANGED <<mgrVars, exeVars, argVars>>
    \/ \E i \in PMs : Exit(i) /\ UNCHANGED <<mgrVars, exeVars, argVars>>

(***************************************************************************)
(* One manager: PersistentManagerBase (here a PythonPersistentManager)     *)
(***************************************************************************)
Adapter == "python"

\* self._args of the modelled manager
OwnArgs == <<"x">>

\* PersistentManagerBase._COMMAND_FINISHED
COMMAND_FINISHED == [type |-> "COMMAND_FINISHED", data |-> <<>>, of |-> 0, gen |-> 0]

\* The commands the callers issue: a short one that prints 42 on stdout, and
\* one larger than the stdin buffer that writes a warning to stderr.
Cmds == {"print", "bulk"}

\* What the interpreter writes when it has run cmd: one raw line.
Output(cmd) ==
    IF cmd = "print" THEN [type |-> "stdout", raw |-> <<"4", "2", "\n">>]
    ELSE [type |-> "stderr", raw |-> <<" ", "w", "\n">>]

\* What the interpreter writes when it cannot run a sentinel.
SentinelError == [type |-> "stderr", raw |-> <<"E", "\n">>]

Whitespace == {" ", "\n"}

RECURSIVE lstrip(_)
lstrip(s) == IF s # <<>> /\ Head(s) \in Whitespace THEN lstrip(Tail(s)) ELSE s

RECURSIVE rstrip(_)
rstrip(s) ==
    IF s # <<>> /\ s[Len(s)] \in Whitespace THEN rstrip(SubSeq(s, 1, Len(s) - 1)) ELSE s

\* str.strip() of lines 163 and 169
strip(s) == rstrip(lstrip(s))

Issues == 1..MaxIssues

\* __init__, line 53: Popen(self._args + self._extra_args(), **self._kwargs)
InitialLaunch == OwnArgs \o extra_args(Adapter)

IdleConsumer ==
    [pc |-> "none", id |-> 0, cmd |-> "print", yielded |-> <<>>, flag |-> FALSE]

IdleWorker ==
    [pc |-> "none", result |-> FALSE, wrote |-> FALSE, sent |-> FALSE, seen |-> FALSE]

NoListener ==
    [pc |-> "none", queue |-> <<>>, connected |-> FALSE, inbox |-> <<>>]

NoPipes == [stdout |-> <<>>, stderr |-> <<>>]

\* The state right after PersistentManagerBase.__init__ (lines 47-56).
InitManager ==
    /\ persistent = [gen |-> 1, launched |-> InitialLaunch, exited |-> FALSE,
                     returncode |-> None]
    /\ stdin = [buf |-> <<>>, pipe |-> <<>>]
    /\ outs = <<NoPipes>>
    /\ msg_queue = <<>>
    /\ command_successful = FALSE
    /\ idle = TRUE
    /\ consumer = [c \in Callers |-> IdleConsumer]
    /\ worker = [c \in Callers |-> IdleWorker]
    /\ listener = [i \in Issues |-> NoListener]
    /\ restarting = FALSE
    /\ hist = [issued |-> 0, restarts |-> 0, written |-> {}, finished |-> {}]

\* ---- the generator issue_command, run by the caller that iterates it

\* lines 98-100: start thread t, self._idle = False
issue_command(c, cmd) ==
    /\ consumer[c].pc \in {"none", "done"}
    /\ hist.issued < MaxIssues
    /\ consumer' = [consumer EXCEPT ![c] =
                       [IdleConsumer EXCEPT !.pc = "get", !.id = hist.issued + 1,
                                            !.cmd = cmd]]
    /\ worker' = [worker EXCEPT ![c] = [IdleWorker EXCEPT !.pc = "write"]]
    /\ idle' = FALSE
    /\ hist' = [hist EXCEPT !.issued = @ + 1]
    /\ UNCHANGED <<persistent, stdin, outs, msg_queue, command_successful,
                   listener, restarting>>

\* A slip that ends the sequence at the first stderr message.
EndsSequenceOnStderr(msg) ==
    msg = COMMAND_FINISHED \/ msg.type = "stderr"

\* line 103: msg == self._COMMAND_FINISHED
EndsSequence(msg) == msg = COMMAND_FINISHED

\* lines 102-105: one self._msg_queue.get(); the message is yielded to the
\* caller unless it ends the sequence.
Get(c) ==
    /\ consumer[c].pc = "get"
    /\ msg_queue # <<>>
    /\ msg_queue' = Tail(msg_queue)
    /\ LET msg == Head(msg_queue) IN
         /\ consumer' = [consumer EXCEPT
                            ![c].pc = IF EndsSequence(msg) THEN "finish" ELSE "get",
                            ![c].yielded = IF EndsSequence(msg) THEN @ ELSE Append(@, msg)]
         /\ hist' = [hist EXCEPT !.finished = IF msg = COMMAND_FINISHED
                                              THEN @ \cup {consumer[c].id} ELSE @]
    /\ UNCHANGED <<persistent, stdin, outs, command_successful, idle, worker,
                   listener, restarting>>

\* lines 106-107: self._idle = True; t.join(); the generator is exhausted and
\* the caller reads command_successful (run_until_complete, line 382).
Finish(c) ==
    /\ consumer[c].pc = "finish"
    /\ worker[c].pc \in {"end", "raised"}
    /\ idle' = TRUE
    /\ consumer' = [consumer EXCEPT ![c].pc = "done", ![c].flag = command_successful]
    /\ UNCHANGED <<persistent, stdin, outs, msg_queue, command_successful, worker,
                   listener, restarting, hist>>

\* ---- the stdin BufferedWriter of the current Popen

CmdItem(c) == [kind |-> "cmd", of |-> consumer[c].id, text |-> consumer[c].cmd]

\* A slip that uses one secret for every wait.
SecretShared(id) == <<0, 0>>

\* str(uuid.uuid4()), line 134: a fresh secret for every wait.
Secret(id) == <<id, id>>

\* _make_sentinel(host, port, secret), lines 223-227; the port of a wait is
\* the one its listener is bound to.
SentinelItem(c) == [kind |-> "sentinel", of |-> consumer[c].id, text |-> "sentinel"]

Big(item) == item.kind = "cmd" /\ item.text = "bulk"

\* The write end of the stdin pipe is broken once the process has exited.
BrokenPipe == persistent.exited

Fits(item) == ~Big(item) /\ Len(stdin.buf) < BufCap

\* stdin.write(data) raises BrokenPipeError: the data does not fit in the
\* buffer, so the writer writes through to a broken pipe.
WriteRaises(item) == ~Fits(item) /\ BrokenPipe

\* stdin after a write that did not raise: buffered, or written through
\* with the rest of the data left in the buffer.
AfterWrite(item) ==
    IF Fits(item) THEN [stdin EXCEPT !.buf = Append(@, item)]
    ELSE [buf |-> <<item>>, pipe |-> stdin.pipe \o stdin.buf]

\* stdin.flush() raises BrokenPipeError.
FlushRaises == stdin.buf # <<>> /\ BrokenPipe

AfterFlush == [buf |-> <<>>, pipe |-> stdin.pipe \o stdin.buf]

\* ---- thread t: _issue_command_and_wait_for_finish

\* line 116 for the command: the write is outside the try block, so a
\* BrokenPipeError raised here ends the thread.
Write(c) ==
    /\ worker[c].pc = "write"
    /\ IF WriteRaises(CmdItem(c))
         THEN /\ worker' = [worker EXCEPT ![c].pc = "raised"]
              /\ UNCHANGED <<stdin, hist>>
         ELSE /\ worker' = [worker EXCEPT ![c].pc = "flush"]
              /\ stdin' = AfterWrite(CmdItem(c))
              /\ hist' = [hist EXCEPT !.written = @ \cup {consumer[c].id}]
    /\ UNCHANGED <<persistent, outs, msg_queue, command_successful, idle, consumer,
                   listener, restarting>>

\* lines 117-121 for the command; on True, _wait_for_command_to_finish is
\* entered (line 111, "and" short-circuits on False).
Flush(c) ==
    /\ worker[c].pc = "flush"
    /\ IF FlushRaises
         THEN /\ worker' = [worker EXCEPT ![c].pc = "set", ![c].result = FALSE]
              /\ UNCHANGED stdin
         ELSE /\ worker' = [worker EXCEPT ![c].pc = "listen", ![c].wrote = TRUE]
              /\ stdin' = AfterFlush
    /\ UNCHANGED <<persistent, outs, msg_queue, command_successful, idle, consumer,
                   listener, restarting, hist>>

\* lines 127-132: pick a port, start the listener thread.
Listen(c) ==
    /\ worker[c].pc = "listen"
    /\ worker' = [worker EXCEPT ![c].pc = "ready"]
    /\ listener' = [listener EXCEPT ![consumer[c].id] = [NoListener EXCEPT !.pc = "bind"]]
    /\ UNCHANGED <<persistent, stdin, outs, msg_queue, command_successful, idle,
                   consumer, restarting, hist>>

\* A slip that goes on without the listener's confirmation.
ReadyWithoutWaiting(c) ==
    /\ worker[c].pc = "ready"
    /\ worker' = [worker EXCEPT ![c].pc = "swrite"]
    /\ UNCHANGED <<persistent, stdin, outs, msg_queue, command_successful, idle,
                   consumer, listener, restarting, hist>>

\* lines 133-135: queue.get() returns once the server is listening.
Ready(c) ==
    /\ worker[c].pc = "ready"
    /\ listener[consumer[c].id].queue # <<>>
    /\ listener' = [listener EXCEPT ![consumer[c].id].queue = Tail(@)]
    /\ worker' = [worker EXCEPT ![c].pc = "swrite"]
    /\ UNCHANGED <<persistent, stdin, outs, msg_queue, command_successful, idle,
                   consumer, restarting, hist>>

\* line 136, the write of self._issue_command(sentinel)
SWrite(c) ==
    /\ worker[c].pc = "swrite"
    /\ IF WriteRaises(SentinelItem(c))
         THEN /\ worker' = [worker EXCEPT ![c].pc = "raised"]
              /\ UNCHANGED stdin
         ELSE /\ worker' = [worker EXCEPT ![c].pc = "sflush"]
              /\ stdin' = AfterWrite(SentinelItem(c))
    /\ UNCHANGED <<persistent, outs, msg_queue, command_successful, idle, consumer,
                   listener, restarting, hist>>

\* lines 136-137, the flush of self._issue_command(sentinel)
SFlush(c) ==
    /\ worker[c].pc = "sflush"
    /\ IF FlushRaises
         THEN /\ worker' = [worker EXCEPT ![c].pc = "set", ![c].result = FALSE]
              /\ UNCHANGED stdin
         ELSE /\ worker' = [worker EXCEPT ![c].pc = "await", ![c].sent = TRUE]
              /\ stdin' = AfterFlush
    /\ UNCHANGED <<persistent, outs, msg_queue, command_successful, idle, consumer,
                   listener, restarting, hist>>

\* A slip that never recognises the secret.
IsSecretNever(msg, secret) == FALSE

\* line 140: msg == secret
IsSecret(msg, secret) == msg = secret

\* lines 138-141: one queue.get(); the loop ends on the secret.
Await(c) ==
    /\ worker[c].pc = "await"
    /\ listener[consumer[c].id].queue # <<>>
    /\ listener' = [listener EXCEPT ![consumer[c].id].queue = Tail(@)]
    /\ IF IsSecret(Head(listener[consumer[c].id].queue), Secret(consumer[c].id))
         THEN worker' = [worker EXCEPT ![c].pc = "join", ![c].seen = TRUE]
         ELSE UNCHANGED worker
    /\ UNCHANGED <<persistent, stdin, outs, msg_queue, command_successful, idle,
                   consumer, restarting, hist>>

\* lines 142-143: thread.join(), return True
Join(c) ==
    /\ worker[c].pc = "join"
    /\ listener[consumer[c].id].pc = "closed"
    /\ worker' = [worker EXCEPT ![c].pc = "set", ![c].result = TRUE]
    /\ UNCHANGED <<persistent, stdin, outs, msg_queue, command_successful, idle,
                   consumer, listener, restarting, hist>>

\* A slip that reports success whatever happened.
FlagAlwaysTrue(result) == TRUE

\* line 111: the value assigned to self.command_successful
Flag(result) == result

\* line 111
SetFlag(c) ==
    /\ worker[c].pc = "set"
    /\ command_successful' = Flag(worker[c].result)
    /\ worker' = [worker EXCEPT ![c].pc = "put"]
    /\ UNCHANGED <<persistent, stdin, outs, msg_queue, idle, consumer, listener,
                   restarting, hist>>

\* line 112
Put(c) ==
    /\ worker[c].pc = "put"
    /\ msg_queue' = Append(msg_queue, COMMAND_FINISHED)
    /\ worker' = [worker EXCEPT ![c].pc = "end"]
    /\ UNCHANGED <<persistent, stdin, outs, command_successful, idle, consumer,
                   listener, restarting, hist>>

\* ---- thread _listen_and_enqueue of wait i

\* lines 148-151: bind, listen, queue.put(None)
Bind(i) ==
    /\ listener[i].pc = "bind"
    /\ listener' = [listener EXCEPT ![i].pc = "accept", ![i].queue = Append(@, <<>>)]
    /\ UNCHANGED <<persistent, stdin, outs, msg_queue, command_successful, idle,
                   consumer, worker, restarting, hist>>

\* lines 152-158: data received on the accepted connection is enqueued
Recv(i) ==
    /\ listener[i].pc = "accept"
    /\ listener[i].connected
    /\ listener[i].inbox # <<>>
    /\ listener' = [listener EXCEPT ![i].queue = Append(@, Head(listener[i].inbox)),
                                    ![i].inbox = Tail(@)]
    /\ UNCHANGED <<persistent, stdin, outs, msg_queue, command_successful, idle,
                   consumer, worker, restarting, hist>>

\* lines 156-157 and the end of the with blocks: the peer closed, the socket
\* is released and the thread ends.
Close(i) ==
    /\ listener[i].pc = "accept"
    /\ listener[i].connected
    /\ listener[i].inbox = <<>>
    /\ listener' = [listener EXCEPT ![i].pc = "closed"]
    /\ UNCHANGED <<persistent, stdin, outs, msg_queue, command_successful, idle,
                   consumer, worker, restarting, hist>>

\* ---- the interpreter process

\* The interpreter can run a sentinel only when it was started with the
\* adapter's bootstrap arguments ("import socket" / "using Sockets").
Bootstrapped ==
    /\ Len(persistent.launched) >= Len(extra_args(Adapter))
    /\ SubSeq(persistent.launched,
              Len(persistent.launched) - Len(extra_args(Adapter)) + 1,
              Len(persistent.launched)) = extra_args(Adapter)

Line(out, id) == [type |-> out.type, raw |-> out.raw, of |-> id, gen |-> persistent.gen]

Emitting(line) ==
    outs' = [outs EXCEPT ![persistent.gen][line.type] = Append(@, line)]

\* The interpreter runs the next unit of its standard input, in order.  A
\* command prints its output; a sentinel connects to the listener of its
\* wait, sends the secret and closes, or fails with an error on stderr.
Exec ==
    /\ ~persistent.exited
    /\ stdin.pipe # <<>>
    /\ stdin' = [stdin EXCEPT !.pipe = Tail(@)]
    /\ LET item == Head(stdin.pipe) IN
         IF item.kind = "cmd"
         THEN /\ Emitting(Line(Output(item.text), item.of))
              /\ UNCHANGED listener
         ELSE IF /\ Bootstrapped
                 /\ listener[item.of].pc = "accept"
                 /\ ~listener[item.of].connected
              THEN /\ listener' = [listener EXCEPT ![item.of].connected = TRUE,
                                                   ![item.of].inbox = <<Secret(item.of)>>]
                   /\ UNCHANGED outs
              ELSE /\ Emitting(Line(SentinelError, item.of))
                   /\ UNCHANGED listener
    /\ UNCHANGED <<persistent, msg_queue, command_successful, idle, consumer, worker,
                   restarting, hist>>

\* The process exits on its own (crash, external kill): what it had not
\* read from its stdin is lost; nothing polls it, returncode stays None.
Die ==
    /\ ~persistent.exited
    /\ persistent' = [persistent EXCEPT !.exited = TRUE]
    /\ stdin' = [stdin EXCEPT !.pipe = <<>>]
    /\ UNCHANGED <<outs, msg_queue, command_successful, idle, consumer, worker,
                   listener, restarting, hist>>

\* ---- the drain threads _log_stdout and _log_stderr of Popen g

\* A slip that tags every message as stdout.
MessageAsStdout(stream, line) ==
    [type |-> "stdout", data |-> strip(line.raw), of |-> line.of, gen |-> line.gen]

\* lines 163-164 and 169-170: dict(type=stream, data=line.decode(...).strip());
\* of and gen only remember where the line came from.
Message(stream, line) ==
    [type |-> stream, data |-> strip(line.raw), of |-> line.of, gen |-> line.gen]

\* lines 160-164
log_stdout(g) ==
    /\ outs[g].stdout # <<>>
    /\ msg_queue' = Append(msg_queue, Message("stdout", Head(outs[g].stdout)))
    /\ outs' = [outs EXCEPT ![g].stdout = Tail(@)]
    /\ UNCHANGED <<persistent, stdin, command_successful, idle, consumer, worker,
                   listener, restarting, hist>>

\* lines 166-170
log_stderr(g) ==
    /\ outs[g].stderr # <<>>
    /\ msg_queue' = Append(msg_queue, Message("stderr", Head(outs[g].stderr)))
    /\ outs' = [outs EXCEPT ![g].stderr = Tail(@)]
    /\ UNCHANGED <<persistent, stdin, command_successful, idle, consumer, worker,
                   listener, restarting, hist>>

\* ---- restart_persistent

\* lines 174-175: self._persistent.kill(); self._persistent.wait()
restart_kill ==
    /\ ~restarting
    /\ hist.restarts < MaxRestarts
    /\ restarting' = TRUE
    /\ persistent' = [persistent EXCEPT !.exited = TRUE, !.returncode = "killed"]
    /\ stdin' = [stdin EXCEPT !.pipe = <<>>]
    /\ hist' = [hist EXCEPT !.restarts = @ + 1]
    /\ UNCHANGED <<outs, msg_queue, command_successful, idle, consumer, worker,
                   listener>>

\* line 176: the arguments given to Popen on restart
RelaunchArgs == OwnArgs

\* lines 176-179: a new Popen with new pipes and new drain threads
restart_launch ==
    /\ restarting
    /\ restarting' = FALSE
    /\ persistent' = [gen |-> persistent.gen + 1, launched |-> RelaunchArgs,
                      exited |-> FALSE, returncode |-> None]
    /\ stdin' = [buf |-> <<>>, pipe |-> <<>>]
    /\ outs' = Append(outs, NoPipes)
    /\ idle' = TRUE
    /\ UNCHANGED <<msg_queue, command_successful, consumer, worker, listener, hist>>

\* ---- interrupt_persistent

\* line 189: range(3)
Retries == 3

\* A slip that runs the loop once more.
MoreIterationsOneExtra(i) == i <= Retries

\* line 189: the loop of _do_interrupt_persistent has iterations left
MoreIterations(i) == i < Retries

\* lines 183-185: self._persistent is never None; the thread is started and
\* the call returns.
interrupt_persistent ==
    /\ Len(signaller) < MaxInterrupts
    /\ signaller' = Append(signaller, [sent |-> 0])

\* lines 189-191: one iteration, send_signal(sig) then sleep(1)
do_interrupt_persistent(t) ==
    /\ MoreIterations(signaller[t].sent)
    /\ signaller' = [signaller EXCEPT ![t].sent = @ + 1]

(***************************************************************************)
(* PersistentExecutionManagerBase over the manager                         *)
(***************************************************************************)
\* The command lists an execution is given.
CommandLists ==
    UNION {[1..n -> Cmds] : n \in 0..MaxIssues}

Alias == <<" ", "r", "u", "n">>

NewRun ==
    [pc |-> "new", pm |-> None, commands |-> <<>>, next |-> 1, logged |-> <<>>,
     flags |-> <<>>, ret |-> <<>>, stop_raised |-> FALSE]

NoCall == [op |-> "none", key |-> <<>>, pc |-> "none", forwarded |-> <<>>]

InitExec ==
    /\ run = NewRun
    /\ signaller = <<>>
    /\ kcall = NoCall

\* lines 352-358: __init__ keeps the commands and what new_persistent_manager
\* returned: the manager, or None after a launch failure (line 260).
exec_init(commands, pm) ==
    /\ run.pc = "new"
    /\ run' = [run EXCEPT !.pc = "start", !.commands = commands, !.pm = pm]
    /\ UNCHANGED <<signaller, kcall>>

\* lines 376-378: the execution_started and stdin events
run_start ==
    /\ run.pc = "start"
    /\ run' = [run EXCEPT !.pc = "loop",
                           !.logged = <<[type |-> "execution_started", data |-> OwnArgs],
                                        [type |-> "stdin", data |-> strip(Alias)]>>]
    /\ UNCHANGED <<signaller, kcall>>

\* line 384: the list is exhausted
run_return ==
    /\ run.pc = "loop"
    /\ run.next > Len(run.commands)
    /\ run' = [run EXCEPT !.pc = "returned", !.ret = <<0>>]
    /\ UNCHANGED <<signaller, kcall>>

\* lines 379-380 with no manager: None has no issue_command (AttributeError)
run_raise ==
    /\ run.pc = "loop"
    /\ run.next <= Len(run.commands)
    /\ run.pm = None
    /\ run' = [run EXCEPT !.pc = "raised"]
    /\ UNCHANGED <<signaller, kcall>>

\* lines 379-380: the next command is issued to the manager
run_issue(c) ==
    /\ run.pc = "loop"
    /\ run.next <= Len(run.commands)
    /\ run.pm # None
    /\ issue_command(c, run.commands[run.next])
    /\ run' = [run EXCEPT !.pc = "iter"]
    /\ UNCHANGED <<signaller, kcall>>

\* lines 380-381: every message the generator yields goes to the logger
run_forward(c) ==
    /\ run.pc = "iter"
    /\ Get(c)
    /\ run' = [run EXCEPT
                   !.pc = IF consumer'[c].pc = "finish" THEN "check" ELSE "iter",
                   !.logged = IF Len(consumer'[c].yielded) > Len(consumer[c].yielded)
                              THEN Append(@, consumer'[c].yielded[Len(consumer'[c].yielded)])
                              ELSE @]
    /\ UNCHANGED <<signaller, kcall>>

\* A slip that never reports a failed command.
ReturnsFailureNever(flag) == FALSE

\* line 382: if not self._persistent_manager.command_successful
ReturnsFailure(flag) == ~flag

\* the generator ends (lines 106-107), then lines 382-383
run_check(c) ==
    /\ run.pc = "check"
    /\ Finish(c)
    /\ run' = IF ReturnsFailure(command_successful)
               THEN [run EXCEPT !.pc = "returned", !.ret = <<-1>>,
                                !.flags = Append(@, command_successful)]
               ELSE [run EXCEPT !.pc = "loop", !.next = @ + 1,
                                !.flags = Append(@, command_successful)]
    /\ UNCHANGED <<signaller, kcall>>

\* line 388, called by the engine's thread at any time after construction:
\* interrupt_persistent of the manager, AttributeError when it is None.
stop_execution ==
    /\ run.pc # "new"
    /\ IF run.pm = None
         THEN /\ ~run.stop_raised
              /\ run' = [run EXCEPT !.stop_raised = TRUE]
              /\ UNCHANGED <<signaller, kcall>>
         ELSE /\ interrupt_persistent
              /\ UNCHANGED <<run, kcall>>

\* The execution runs on one caller thread of the manager.
RunCallers == {1}

NextRun ==
    \/ \E l \in CommandLists, pm \in {"pm", None} : exec_init(l, pm) /\ UNCHANGED <<regVars, mgrVars, argVars>>
    \/ run_start /\ UNCHANGED <<regVars, mgrVars, argVars>>
    \/ run_return /\ UNCHANGED <<regVars, mgrVars, argVars>>
    \/ run_raise /\ UNCHANGED <<regVars, mgrVars, argVars>>
    \/ \E c \in RunCallers : run_issue(c) /\ UNCHANGED <<regVars, argVars>>
    \/ \E c \in RunCallers : run_forward(c) /\ UNCHANGED <<regVars, argVars>>
    \/ \E c \in RunCallers : run_check(c) /\ UNCHANGED <<regVars, argVars>>
    \/ stop_execution /\ UNCHANGED <<regVars, mgrVars, argVars>>
    \/ \E t \in DOMAIN signaller : do_interrupt_persistent(t) /\ UNCHANGED <<regVars, mgrVars, run, kcall, argVars>>
    \/ \E c \in RunCallers : Write(c) /\ UNCHANGED <<regVars, exeVars, argVars>>
    \/ \E c \in RunCallers : Flush(c) /\ UNCHANGED <<regVars, exeVars, argVars>>
    \/ \E c \in RunCallers : Listen(c) /\ UNCHANGED <<regVars, exeVars, argVars>>
    \/ \E c \in RunCallers : Ready(c) /\ UNCHANGED <<regVars, exeVars, argVars>>
    \/ \E c \in RunCallers : SWrite(c) /\ UNCHANGED <<regVars, exeVars, argVars>>
    \/ \E c \in RunCallers : SFlush(c) /\ UNCHANGED <<regVars, exeVars, argVars>>
    \/ \E c \in RunCallers : Await(c) /\ UNCHANGED <<regVars, exeVars, argVars>>
    \/ \E c \in RunCallers : Join(c) /\ UNCHANGED <<regVars, exeVars, argVars>>
    \/ \E c \in RunCallers : SetFlag(c) /\ UNCHANGED <<regVars, exeVars, argVars>>
    \/ \E c \in RunCallers : Put(c) /\ UNCHANGED <<regVars, exeVars, argVars>>
    \/ \E i \in Issues : Bind(i) /\ UNCHANGED <<regVars, exeVars, argVars>>
    \/ \E i \in Issues : Recv(i) /\ UNCHANGED <<regVars, exeVars, argVars>>
    \/ \E i \in Issues : Close(i) /\ UNCHANGED <<regVars, exeVars, argVars>>
    \/ Exec /\ UNCHANGED <<regVars, exeVars, argVars>>
    \/ Die /\ UNCHANGED <<regVars, exeVars, argVars>>
    \/ \E g \in 1..Len(outs) : log_stdout(g) /\ UNCHANGED <<regVars, exeVars, argVars>>
    \/ \E g \in 1..Len(outs) : log_stderr(g) /\ UNCHANGED <<regVars, exeVars, argVars>>

(***************************************************************************)
(* expand_cmd_line_args (project_item_resource.py, lines 292-314)          *)
(***************************************************************************)

\* The texts of arguments; the labels are the texts a mapping may hold.
Texts == {"a", "l1", "l2"}

Labels == {"l1", "l2"}

\* The cmd line arguments a label maps to; "" when the label has no resource.
Values == {"", "v"}

\* class CmdLineArg (line 137) and its subclass LabelArg (line 165).
Classes == {"CmdLineArg", "LabelArg"}

\* CmdLineArg.__init__, line 145: the object keeps its text.
ArgObjects == [cls : Classes, arg : Texts]

\* The lists of arguments of at most MaxArgs elements.
ArgsLists == UNION {[1..n -> ArgObjects] : n \in 0..MaxArgs}

\* The dicts from some of the labels to values.
Mappings == UNION {[D -> Values] : D \in SUBSET Labels}

\* CmdLineArg.__str__, lines 153-154
str(arg) == arg.arg

\* line 305: isinstance(arg, LabelArg)
isinstance_LabelArg(arg) == arg.cls = "LabelArg"

\* line 308: dict.get(key) is the value, or None when the key is absent.
get(d, key) == IF key \in DOMAIN d THEN d[key] ELSE None

\* A slip that appends whatever the mapping holds.
truthAlways(expanded) == TRUE

\* line 312: `if expanded:`, a str is true when it is not empty.
truth(expanded) == expanded # ""

\* line 310: the warning names the argument.
Warning(arg) == <<"No resources matching argument", str(arg)>>

NoExpansion ==
    [pc |-> "idle", args |-> <<>>, label_to_arg |-> <<>>, given |-> <<>>,
     i |-> 0, expanded_args |-> <<>>, msg_warning |-> <<>>, ret |-> <<>>]

InitExpand == expansion = NoExpansion

\* lines 292, 303: the call binds args and label_to_arg to the caller's list
\* and dict (given remembers what they held) and makes the empty result list.
expand_call ==
    /\ expansion.pc = "idle"
    /\ \E args \in ArgsLists, label_to_arg \in Mappings :
           expansion' = [NoExpansion EXCEPT !.pc = "loop",
                                           !.args = args,
                                           !.label_to_arg = label_to_arg,
                                           !.given = <<args, label_to_arg>>,
                                           !.i = 1]

\* lines 304-313: one iteration of the loop.
expand_iteration ==
    /\ expansion.pc = "loop"
    /\ expansion.i <= Len(expansion.args)
    /\ LET arg == expansion.args[expansion.i]
           expanded == get(expansion.label_to_arg, str(arg))
       IN  expansion' =
               IF ~isinstance_LabelArg(arg)
                 THEN [expansion EXCEPT !.i = @ + 1,
                                        !.expanded_args = Append(@, str(arg))]
               ELSE IF expanded = None
                 THEN [expansion EXCEPT !.i = @ + 1,
                                        !.msg_warning = Append(@, Warning(arg))]
               ELSE IF truth(expanded)
                 THEN [expansion EXCEPT !.i = @ + 1,
                                        !.expanded_args = Append(@, expanded)]
               ELSE [expansion EXCEPT !.i = @ + 1]

\* line 314: the loop is over, the list is returned.
expand_return ==
    /\ expansion.pc = "loop"
    /\ expansion.i > Len(expansion.args)
    /\ expansion' = [expansion EXCEPT !.pc = "returned", !.ret = expansion.expanded_args]

NextExpand ==
    \/ expand_call /\ UNCHANGED <<regVars, mgrVars, exeVars>>
    \/ expand_iteration /\ UNCHANGED <<regVars, mgrVars, exeVars>>
    \/ expand_return /\ UNCHANGED <<regVars, mgrVars, exeVars>>

\* ---- the registry's callers

InCall(c) == acall[c].pc \notin {"idle", "done", "raised"}

Pooled(c) == acall[c].group_id # None

\* Construction of the registry and of the manager.
Init == InitRegistry /\ InitManager /\ InitExec /\ InitExpand

SpecRegistry == Init /\ [][NextRegistry]_vars

\* The callers enter new_persistent_manager one at a time.
SerialCall(c, constructor, args, group_id) ==
    /\ \A d \in Callers : ~InCall(d)
    /\ Call(c, constructor, args, group_id)

NextRegistrySerial ==
    \/ \E c \in Callers, r \in Requests, a \in ArgLists : SerialCall(c, r[1], a, r[2]) /\ UNCHANGED <<mgrVars, exeVars, argVars>>
    \/ \E c \in Callers : Isolated(c) /\ UNCHANGED <<mgrVars, exeVars, argVars>>
    \/ \E c \in Callers : Check(c) /\ UNCHANGED <<mgrVars, exeVars, argVars>>
    \/ \E c \in Callers : Construct(c) /\ UNCHANGED <<mgrVars, exeVars, argVars>>
    \/ \E c \in Callers : Read(c) /\ UNCHANGED <<mgrVars, exeVars, argVars>>
    \/ \E c \in Callers : Emit(c) /\ UNCHANGED <<mgrVars, exeVars, argVars>>
    \/ \E k \in Keys : RestartCall(k) /\ UNCHANGED <<mgrVars, exeVars, argVars>>
    \/ RestartKill /\ UNCHANGED <<mgrVars, exeVars, argVars>>
    \/ RestartLaunch /\ UNCHANGED <<mgrVars, exeVars, argVars>>
    \/ \E i \in PMs : Exit(i) /\ UNCHANGED <<mgrVars, exeVars, argVars>>

SpecRegistrySerial == Init /\ [][NextRegistrySerial]_vars

(***************************************************************************)
(* The registry's operations by key, over the manager                      *)
(***************************************************************************)
\* The key the modelled manager is acquired with.
OwnKey == LaunchKey(OwnArgs, "g1")

\* A slip that finds the manager of some key when the key asked for is absent.
LookupAny(key) ==
    IF persistent_managers[key] # NoPM \/ \A k \in Keys : persistent_managers[k] = NoPM
    THEN persistent_managers[key]
    ELSE persistent_managers[CHOOSE k \in Keys : persistent_managers[k] # NoPM]

\* lines 272, 283, 298: self._persistent_managers.get(key), NoPM for None
Lookup(key) == persistent_managers[key]

\* The one acquisition of the modelled manager: new_persistent_manager with
\* the manager's own arguments and group "g1".
keyed_acquire(c) ==
    /\ pms = <<>>
    /\ SerialCall(c, Adapter, OwnArgs, "g1")

\* _PersistentManagerFactory.restart_persistent, lines 272-275
keyed_restart(key) ==
    /\ kcall.pc = "none"
    /\ IF Lookup(key) = NoPM
         THEN /\ kcall' = [op |-> "restart", key |-> key, pc |-> "return", forwarded |-> <<>>]
              /\ UNCHANGED mgrVars
         ELSE /\ restart_kill
              /\ kcall' = [op |-> "restart", key |-> key, pc |-> "launch", forwarded |-> <<>>]

\* the rest of the delegated restart_persistent
keyed_restart_launch ==
    /\ kcall.pc = "launch"
    /\ restart_launch
    /\ kcall' = [kcall EXCEPT !.pc = "return"]

\* _PersistentManagerFactory.interrupt_persistent, lines 283-286
keyed_interrupt(key) ==
    /\ kcall.pc = "none"
    /\ kcall' = [op |-> "interrupt", key |-> key, pc |-> "return", forwarded |-> <<>>]
    /\ IF Lookup(key) = NoPM
         THEN UNCHANGED signaller
         ELSE interrupt_persistent

\* _PersistentManagerFactory.issue_persistent_command, lines 298-301: the
\* generator returns at once when the key is absent, else it iterates
\* pm.issue_command(cmd).
keyed_issue(c, key, cmd) ==
    /\ kcall.pc = "none"
    /\ IF Lookup(key) = NoPM
         THEN /\ kcall' = [op |-> "issue", key |-> key, pc |-> "return", forwarded |-> <<>>]
              /\ UNCHANGED mgrVars
         ELSE /\ issue_command(c, cmd)
              /\ kcall' = [op |-> "issue", key |-> key, pc |-> "iter", forwarded |-> <<>>]

\* lines 301-302: yield msg
keyed_forward(c) ==
    /\ kcall.pc = "iter"
    /\ Get(c)
    /\ kcall' = [kcall EXCEPT
                     !.pc = IF consumer'[c].pc = "finish" THEN "finish" ELSE "iter",
                     !.forwarded = IF Len(consumer'[c].yielded) > Len(consumer[c].yielded)
                                   THEN Append(@, consumer'[c].yielded[Len(consumer'[c].yielded)])
                                   ELSE @]

\* the delegated generator is exhausted, and so is the registry's
keyed_finish(c) ==
    /\ kcall.pc = "finish"
    /\ Finish(c)
    /\ kcall' = [kcall EXCEPT !.pc = "return"]

\* lines 274, 275, 285, 286, 300, 302: the call is over
keyed_return ==
    /\ kcall.pc = "return"
    /\ kcall' = NoCall

\* The process of the manager exists once the manager is constructed.
keyed_die ==
    /\ persistent_managers[OwnKey] # NoPM
    /\ Die

NextKeyed ==
    \/ \E c \in RunCallers : keyed_acquire(c) /\ UNCHANGED <<mgrVars, exeVars, argVars>>
    \/ \E c \in RunCallers : Check(c) /\ UNCHANGED <<mgrVars, exeVars, argVars>>
    \/ \E c \in RunCallers : Construct(c) /\ UNCHANGED <<mgrVars, exeVars, argVars>>
    \/ \E c \in RunCallers : Read(c) /\ UNCHANGED <<mgrVars, exeVars, argVars>>
    \/ \E c \in RunCallers : Emit(c) /\ UNCHANGED <<mgrVars, exeVars, argVars>>
    \/ \E k \in Keys : keyed_restart(k) /\ UNCHANGED <<regVars, run, signaller, argVars>>
    \/ keyed_restart_launch /\ UNCHANGED <<regVars, run, signaller, argVars>>
    \/ \E k \in Keys : keyed_interrupt(k) /\ UNCHANGED <<regVars, mgrVars, run, argVars>>
    \/ \E c \in RunCallers, k \in Keys, cmd \in Cmds : keyed_issue(c, k, cmd) /\ UNCHANGED <<regVars, run, signaller, argVars>>
    \/ \E c \in RunCallers : keyed_forward(c) /\ UNCHANGED <<regVars, run, signaller, argVars>>
    \/ \E c \in RunCallers : keyed_finish(c) /\ UNCHANGED <<regVars, run, signaller, argVars>>
    \/ keyed_return /\ UNCHANGED <<regVars, mgrVars, run, signaller, argVars>>
    \/ \E c \in RunCallers : Write(c) /\ UNCHANGED <<regVars, exeVars, argVars>>
    \/ \E c \in RunCallers : Flush(c) /\ UNCHANGED <<regVars, exeVars, argVars>>
    \/ \E c \in RunCallers : Listen(c) /\ UNCHANGED <<regVars, exeVars, argVars>>
    \/ \E c \in RunCallers : Ready(c) /\ UNCHANGED <<regVars, exeVars, argVars>>
    \/ \E c \in RunCallers : SWrite(c) /\ UNCHANGED <<regVars, exeVars, argVars>>
    \/ \E c \in RunCallers : SFlush(c) /\ UNCHANGED <<regVars, exeVars, argVars>>
    \/ \E c \in RunCallers : Await(c) /\ UNCHANGED <<regVars, exeVars, argVars>>
    \/ \E c \in RunCallers : Join(c) /\ UNCHANGED <<regVars, exeVars, argVars>>
    \/ \E c \in RunCallers : SetFlag(c) /\ UNCHANGED <<regVars, exeVars, argVars>>
    \/ \E c \in RunCallers : Put(c) /\ UNCHANGED <<regVars, exeVars, argVars>>
    \/ \E i \in Issues : Bind(i) /\ UNCHANGED <<regVars, exeVars, argVars>>
    \/ \E i \in Issues : Recv(i) /\ UNCHANGED <<regVars, exeVars, argVars>>
    \/ \E i \in Issues : Close(i) /\ UNCHANGED <<regVars, exeVars, argVars>>
    \/ Exec /\ UNCHANGED <<regVars, exeVars, argVars>>
    \/ keyed_die /\ UNCHANGED <<regVars, exeVars, argVars>>
    \/ \E g \in 1..Len(outs) : log_stdout(g) /\ UNCHANGED <<regVars, exeVars, argVars>>
    \/ \E g \in 1..Len(outs) : log_stderr(g) /\ UNCHANGED <<regVars, exeVars, argVars>>

\* ---- specifications of the manager


Outstanding(c) == consumer[c].pc \in {"get", "finish"}

\* The caller contract of issue_command: a sequence is consumed to completion
\* before the next command is issued to the manager.  One caller thread
\* stands for the callers that take turns.
SerialCallers == {1}

serial_issue_command(c, cmd) ==
    /\ \A d \in Callers : ~Outstanding(d)
    /\ issue_command(c, cmd)

Next ==
    \/ \E c \in Callers, cmd \in Cmds : issue_command(c, cmd) /\ UNCHANGED <<regVars, exeVars, argVars>>
    \/ \E c \in Callers : Get(c) /\ UNCHANGED <<regVars, exeVars, argVars>>
    \/ \E c \in Callers : Finish(c) /\ UNCHANGED <<regVars, exeVars, argVars>>
    \/ \E c \in Callers : Write(c) /\ UNCHANGED <<regVars, exeVars, argVars>>
    \/ \E c \in Callers : Flush(c) /\ UNCHANGED <<regVars, exeVars, argVars>>
    \/ \E c \in Callers : Listen(c) /\ UNCHANGED <<regVars, exeVars, argVars>>
    \/ \E c \in Callers : Ready(c) /\ UNCHANGED <<regVars, exeVars, argVars>>
    \/ \E c \in Callers : SWrite(c) /\ UNCHANGED <<regVars, exeVars, argVars>>
    \/ \E c \in Callers : SFlush(c) /\ UNCHANGED <<regVars, exeVars, argVars>>
    \/ \E c \in Callers : Await(c) /\ UNCHANGED <<regVars, exeVars, argVars>>
    \/ \E c \in Callers : Join(c) /\ UNCHANGED <<regVars, exeVars, argVars>>
    \/ \E c \in Callers : SetFlag(c) /\ UNCHANGED <<regVars, exeVars, argVars>>
    \/ \E c \in Callers : Put(c) /\ UNCHANGED <<regVars, exeVars, argVars>>
    \/ \E i \in Issues : Bind(i) /\ UNCHANGED <<regVars, exeVars, argVars>>
    \/ \E i \in Issues : Recv(i) /\ UNCHANGED <<regVars, exeVars, argVars>>
    \/ \E i \in Issues : Close(i) /\ UNCHANGED <<regVars, exeVars, argVars>>
    \/ Exec /\ UNCHANGED <<regVars, exeVars, argVars>>
    \/ Die /\ UNCHANGED <<regVars, exeVars, argVars>>
    \/ \E g \in 1..Len(outs) : log_stdout(g) /\ UNCHANGED <<regVars, exeVars, argVars>>
    \/ \E g \in 1..Len(outs) : log_stderr(g) /\ UNCHANGED <<regVars, exeVars, argVars>>
    \/ restart_kill /\ UNCHANGED <<regVars, exeVars, argVars>>
    \/ restart_launch /\ UNCHANGED <<regVars, exeVars, argVars>>

NextSerial ==
    \/ \E c \in SerialCallers, cmd \in Cmds : serial_issue_command(c, cmd) /\ UNCHANGED <<regVars, exeVars, argVars>>
    \/ \E c \in SerialCallers : Get(c) /\ UNCHANGED <<regVars, exeVars, argVars>>
    \/ \E c \in SerialCallers : Finish(c) /\ UNCHANGED <<regVars, exeVars, argVars>>
    \/ \E c \in SerialCallers : Write(c) /\ UNCHANGED <<regVars, exeVars, argVars>>
    \/ \E c \in SerialCallers : Flush(c) /\ UNCHANGED <<regVars, exeVars, argVars>>
    \/ \E c \in SerialCallers : Listen(c) /\ UNCHANGED <<regVars, exeVars, argVars>>
    \/ \E c \in SerialCallers : Ready(c) /\ UNCHANGED <<regVars, exeVars, argVars>>
    \/ \E c \in SerialCallers : SWrite(c) /\ UNCHANGED <<regVars, exeVars, argVars>>
    \/ \E c \in SerialCallers : SFlush(c) /\ UNCHANGED <<regVars, exeVars, argVars>>
    \/ \E c \in SerialCallers : Await(c) /\ UNCHANGED <<regVars, exeVars, argVars>>
    \/ \E c \in SerialCallers : Join(c) /\ UNCHANGED <<regVars, exeVars, argVars>>
    \/ \E c \in SerialCallers : SetFlag(c) /\ UNCHANGED <<regVars, exeVars, argVars>>
    \/ \E c \in SerialCallers : Put(c) /\ UNCHANGED <<regVars, exeVars, argVars>>
    \/ \E i \in Issues : Bind(i) /\ UNCHANGED <<regVars, exeVars, argVars>>
    \/ \E i \in Issues : Recv(i) /\ UNCHANGED <<regVars, exeVars, argVars>>
    \/ \E i \in Issues : Close(i) /\ UNCHANGED <<regVars, exeVars, argVars>>
    \/ Exec /\ UNCHANGED <<regVars, exeVars, argVars>>
    \/ Die /\ UNCHANGED <<regVars, exeVars, argVars>>
    \/ \E g \in 1..Len(outs) : log_stdout(g) /\ UNCHANGED <<regVars, exeVars, argVars>>
    \/ \E g \in 1..Len(outs) : log_stderr(g) /\ UNCHANGED <<regVars, exeVars, argVars>>
    \/ restart_kill /\ UNCHANGED <<regVars, exeVars, argVars>>
    \/ restart_launch /\ UNCHANGED <<regVars, exeVars, argVars>>

\* The manager with its callers' threads interleaving freely.
Spec == Init /\ [][Next]_vars

\* The manager used under the caller contract.
SpecSerial == Init /\ [][NextSerial]_vars

\* What a connection that is not the sentinel's own complete send can bring
\* to the listener of wait i: a partial chunk of the secret of i, or the
\* secret of another wait.
Junk(i) == {<<i>>} \cup {Secret(j) : j \in Issues \ {i}}

\* The chunks conn.recv(1024) returns for such a connection, then b''.
Payloads(i) ==
    {<<x>> : x \in Junk(i)} \cup {<<x, y>> : x \in Junk(i), y \in Junk(i)}

\* lines 152-155 seen from the peer: some connection other than a complete
\* sentinel reaches the listening socket of wait i, sends, and closes.
Intrude(i, chunks) ==
    /\ listener[i].pc = "accept"
    /\ ~listener[i].connected
    /\ listener' = [listener EXCEPT ![i].connected = TRUE, ![i].inbox = chunks]
    /\ UNCHANGED <<persistent, stdin, outs, msg_queue, command_successful, idle,
                   consumer, worker, restarting, hist>>

NextWait ==
    \/ \E c \in SerialCallers, cmd \in Cmds : serial_issue_command(c, cmd) /\ UNCHANGED <<regVars, exeVars, argVars>>
    \/ \E c \in SerialCallers : Get(c) /\ UNCHANGED <<regVars, exeVars, argVars>>
    \/ \E c \in SerialCallers : Finish(c) /\ UNCHANGED <<regVars, exeVars, argVars>>
    \/ \E c \in SerialCallers : Write(c) /\ UNCHANGED <<regVars, exeVars, argVars>>
    \/ \E c \in SerialCallers : Flush(c) /\ UNCHANGED <<regVars, exeVars, argVars>>
    \/ \E c \in SerialCallers : Listen(c) /\ UNCHANGED <<regVars, exeVars, argVars>>
    \/ \E c \in SerialCallers : Ready(c) /\ UNCHANGED <<regVars, exeVars, argVars>>
    \/ \E c \in SerialCallers : SWrite(c) /\ UNCHANGED <<regVars, exeVars, argVars>>
    \/ \E c \in SerialCallers : SFlush(c) /\ UNCHANGED <<regVars, exeVars, argVars>>
    \/ \E c \in SerialCallers : Await(c) /\ UNCHANGED <<regVars, exeVars, argVars>>
    \/ \E c \in SerialCallers : Join(c) /\ UNCHANGED <<regVars, exeVars, argVars>>
    \/ \E c \in SerialCallers : SetFlag(c) /\ UNCHANGED <<regVars, exeVars, argVars>>
    \/ \E c \in SerialCallers : Put(c) /\ UNCHANGED <<regVars, exeVars, argVars>>
    \/ \E i \in Issues : Bind(i) /\ UNCHANGED <<regVars, exeVars, argVars>>
    \/ \E i \in Issues : Recv(i) /\ UNCHANGED <<regVars, exeVars, argVars>>
    \/ \E i \in Issues : Close(i) /\ UNCHANGED <<regVars, exeVars, argVars>>
    \/ \E i \in Issues : \E chunks \in Payloads(i) : Intrude(i, chunks) /\ UNCHANGED <<regVars, exeVars, argVars>>
    \/ Exec /\ UNCHANGED <<regVars, exeVars, argVars>>
    \/ Die /\ UNCHANGED <<regVars, exeVars, argVars>>
    \/ \E g \in 1..Len(outs) : log_stdout(g) /\ UNCHANGED <<regVars, exeVars, argVars>>
    \/ \E g \in 1..Len(outs) : log_stderr(g) /\ UNCHANGED <<regVars, exeVars, argVars>>

\* The manager under the caller contract, with listeners that can be
\* reached by connections other than their sentinel's.
SpecWait == Init /\ [][NextWait]_vars

\* One execution: run_until_complete on one thread, stop_execution and the
\* interrupt threads on others.
SpecRun == Init /\ [][NextRun]_vars

\* The registry's restart, interrupt and issue by key, one call at a time,
\* on a registry that holds the modelled manager once it is acquired.  The
\* interrupt threads the calls start are left unscheduled here (SpecRun
\* runs them).
SpecKeyed == Init /\ [][NextKeyed]_vars

\* Calls of expand_cmd_line_args on every list and mapping within the bounds.
SpecExpand == Init /\ [][NextExpand]_vars

\* The steps of the threads of the manager: the consumer iterating the
\* generator, thread t, the listener threads, and the drain threads.
ThreadStep ==
    \/ \E c \in SerialCallers : Get(c) \/ Finish(c)
    \/ \E c \in SerialCallers :
          \/ Write(c) \/ Flush(c) \/ Listen(c) \/ Ready(c) \/ SWrite(c) \/ SFlush(c)
          \/ Await(c) \/ Join(c) \/ SetFlag(c) \/ Put(c)
    \/ \E i \in Issues : Bind(i) \/ Recv(i) \/ Close(i)
    \/ \E g \in 1..Len(outs) : log_stdout(g) \/ log_stderr(g)

\* The manager under the caller contract with its threads scheduled fairly:
\* a thread that can take a step is not delayed for ever.  The interpreter
\* and the callers of issue_command and restart_persistent are not forced.
SpecSerialFair ==
    SpecSerial /\ WF_vars(ThreadStep /\ UNCHANGED <<regVars, exeVars, argVars>>)

(***************************************************************************)
(* Claims about the registry                                               *)
(***************************************************************************)

\* C1: two new_persistent_manager calls with equal launch keys (group not
\* None) return the same manager when the manager stored under the key is
\* alive at the second call, and the second call constructs nothing.
C1_SameInstanceWhileAlive ==
    \A c \in Callers : \A d \in Callers \ {c} :
        ( /\ acall[c].pc = "done" /\ acall[d].pc = "done"
          /\ Pooled(c) /\ Pooled(d)
          /\ KeyOf(c) = KeyOf(d)
          /\ acall[c].ret # NoPM
          /\ acall[d].found = acall[c].ret )
        => /\ acall[d].ret = acall[c].ret
           /\ acall[d].created = NoPM

C1_Witness ==
    \E c \in Callers : \E d \in Callers \ {c} :
        /\ acall[c].pc = "done" /\ acall[d].pc = "done"
        /\ Pooled(c) /\ Pooled(d)
        /\ KeyOf(c) = KeyOf(d)
        /\ acall[c].created # NoPM
        /\ acall[c].ret = acall[c].created
        /\ acall[d].found = acall[c].ret
        /\ acall[d].ret = acall[c].ret

\* The step by which caller c's isolated call returns a manager.
IsolatedReturn(c) ==
    /\ acall[c].pc = "isolated"
    /\ acall'[c].pc = "done"

\* C2: a call with group None that returns, returns a manager constructed by
\* this very call, which is not stored in the registry and which no other
\* call has returned; the call leaves the registry map unchanged.
C2_IsolatedIsPrivate ==
    /\ [](\A c \in Callers :
            (acall[c].pc = "done" /\ ~Pooled(c)) =>
                /\ acall[c].ret # NoPM
                /\ acall[c].ret = acall[c].created
                /\ \A k \in Keys : persistent_managers[k] # acall[c].ret
                /\ \A d \in Callers \ {c} :
                      acall[d].pc = "done" => acall[d].ret # acall[c].ret)
    /\ [][\A c \in Callers :
            IsolatedReturn(c) =>
                /\ acall'[c].ret \notin PMs
                /\ persistent_managers' = persistent_managers]_vars

C2_Witness ==
    \E c \in Callers : \E d \in Callers \ {c} :
        /\ acall[c].pc = "done" /\ ~Pooled(c) /\ acall[c].ret # NoPM
        /\ acall[d].pc = "done" /\ acall[d].ret # NoPM
        /\ \E k \in Keys : persistent_managers[k] # NoPM

\* C3: acquisition is serialized: two overlapping calls with the same launch
\* key never both construct a process, and both are about to return the same
\* manager.
C3_SerializedAcquire ==
    \A c \in Callers : \A d \in Callers \ {c} :
        (InCall(c) /\ InCall(d) /\ Pooled(c) /\ Pooled(d) /\ KeyOf(c) = KeyOf(d)) =>
            /\ ~(acall[c].created # NoPM /\ acall[d].created # NoPM)
            /\ (acall[c].pc = "emit" /\ acall[d].pc = "emit") => acall[c].pm = acall[d].pm

\* The step at line 254 of caller c's call.
CheckStep(c) ==
    /\ acall[c].pc = "check"
    /\ acall'[c].pc # "check"

\* C11: when the OS process of the manager stored under the key has exited,
\* the acquire does not go on to return that manager: the test at line 254
\* sends the call to construct a new one.
C11_DeadEntryReplaced ==
    [][\A c \in Callers :
          ( /\ CheckStep(c)
            /\ persistent_managers[KeyOf(c)] # NoPM
            /\ pms[persistent_managers[KeyOf(c)]].exited )
          => acall'[c].pc = "construct"]_vars

\* C12: is_persistent_alive() is true exactly when the OS process of the
\* manager has not exited.
C12_AliveIffRunning ==
    \A i \in PMs : is_persistent_alive(i) <=> ~pms[i].exited

\* C13: a launch error never raises out of new_persistent_manager; the call
\* that yields no manager has emitted exactly one persistent_failed_to_start
\* event, with the arguments and the error text, and no started event.
C13_LaunchFailureReported ==
    \A c \in Callers :
        /\ acall[c].pc # "raised"
        /\ (acall[c].pc = "done" /\ acall[c].ret = NoPM) =>
               acall[c].events = <<FailedToStart(c)>>

\* C14: a call that returned a manager has emitted exactly one
\* persistent_started event, with the language of the returned manager and,
\* for a pooled call, its key.
C14_StartedEventEmitted ==
    \A c \in Callers :
        (acall[c].pc = "done" /\ acall[c].ret # NoPM) =>
            /\ Len(acall[c].events) = 1
            /\ acall[c].events[1].type = "persistent_started"
            /\ acall[c].events[1].language = pms[acall[c].ret].language
            /\ Pooled(c) => acall[c].events[1].key = KeyOf(c)

\* C23: a pooled call that returns the manager it found under its key (it
\* constructed nothing) gets a manager launched with the request's ordered
\* args and by the request's constructor (the adapter kind).
C23_KeyImpliesSameLaunch ==
    \A c \in Callers :
        ( /\ acall[c].pc = "done"
          /\ Pooled(c)
          /\ acall[c].ret # NoPM
          /\ acall[c].created = NoPM )
        => /\ pms[acall[c].ret].own_args = acall[c].args
           /\ pms[acall[c].ret].language = acall[c].constructor

(***************************************************************************)
(* Claims about one manager                                                *)
(***************************************************************************)

\* C4: at most one command is in flight on the manager: no two issue_command
\* sequences are being consumed at the same time.
C4_OneCommandInFlight ==
    \A c \in Callers : \A d \in Callers \ {c} :
        ~(consumer[c].pc = "get" /\ consumer[d].pc = "get")

\* C5: once a sequence has drained, the flag the caller reads is true exactly
\* when the command's flush succeeded and the wait saw its secret, and false
\* when a flush hit the broken pipe.
C5_FlagReflectsCommand ==
    \A c \in Callers :
        consumer[c].pc = "done" =>
            /\ consumer[c].flag = (worker[c].wrote /\ worker[c].seen)
            /\ (~worker[c].wrote \/ ~worker[c].sent) => ~consumer[c].flag

\* The second command failed at the sentinel after the first one succeeded.
C5_Witness ==
    \E c \in Callers :
        /\ consumer[c].pc = "done"
        /\ consumer[c].id = 2
        /\ listener[1].pc = "closed"
        /\ worker[c].wrote
        /\ ~worker[c].sent
        /\ ~consumer[c].flag

\* C6: a broken pipe never ends thread t without the completion marker: no
\* exception escapes _issue_command_and_wait_for_finish.
C6_NoThreadDies ==
    \A c \in Callers : worker[c].pc # "raised"

\* C7: the sequence of a successful print command is exactly its one stdout
\* message.
C7_OutputInOwnSequence ==
    \A c \in Callers :
        (consumer[c].pc = "done" /\ consumer[c].cmd = "print" /\ consumer[c].flag) =>
            /\ Len(consumer[c].yielded) = 1
            /\ consumer[c].yielded[1].type = "stdout"
            /\ consumer[c].yielded[1].data = <<"4", "2">>
            /\ consumer[c].yielded[1].of = consumer[c].id

\* Every message of command n that exists anywhere.
MessagesOf(n) ==
    {m \in UNION ({{msg_queue[i] : i \in DOMAIN msg_queue}}
                   \cup {{consumer[c].yielded[i] : i \in DOMAIN consumer[c].yielded} :
                            c \in Callers}
                   \cup {{outs[g].stdout[i] : i \in DOMAIN outs[g].stdout} :
                            g \in DOMAIN outs}
                   \cup {{outs[g].stderr[i] : i \in DOMAIN outs[g].stderr} :
                            g \in DOMAIN outs}) : m.of = n}

\* C8: under sequential use, command n is written to stdin, and any message
\* it produces exists, only after the completion marker of every earlier
\* command has been consumed.
C8_SequentialCommands ==
    \A n \in Issues :
        (n \in hist.written \/ MessagesOf(n) # {}) =>
            \A m \in 1..(n - 1) : m \in hist.finished

C8_Witness ==
    /\ 2 \in hist.written
    /\ MessagesOf(2) # {}
    /\ 1 \in hist.finished

Streams == {"stdout", "stderr"}

\* The message a line of stream s is to be delivered as.
Expected(s, line) ==
    [type |-> s, data |-> strip(line.raw), of |-> line.of, gen |-> line.gen]

\* The undelivered messages of stream s of Popen g, oldest first.
Pending(g, s) ==
    SelectSeq(msg_queue, LAMBDA m : m.type = s /\ m.gen = g)
        \o [i \in DOMAIN outs[g][s] |-> Expected(s, outs[g][s][i])]

\* C9: every step either leaves the undelivered messages of a stream as
\* they are, or appends a newly emitted one, or hands the oldest one to a
\* consumer whose sequence is outstanding; a consumer takes the head of the
\* channel, and its sequence ends exactly on the completion marker.
C9_ChannelIsFifo ==
    [][ /\ \A g \in DOMAIN outs : \A s \in Streams :
              \/ Pending(g, s)' = Pending(g, s)
              \/ /\ Len(Pending(g, s)') = Len(Pending(g, s)) + 1
                 /\ SubSeq(Pending(g, s)', 1, Len(Pending(g, s))) = Pending(g, s)
                 /\ outs'[g][s] # <<>>
              \/ /\ Pending(g, s) # <<>>
                 /\ Pending(g, s)' = Tail(Pending(g, s))
                 /\ \E c \in Callers :
                       /\ consumer[c].pc = "get"
                       /\ consumer'[c].yielded =
                              Append(consumer[c].yielded, Head(Pending(g, s)))
        /\ \A c \in Callers :
              (consumer[c].pc = "get" /\ consumer'[c] # consumer[c]) =>
                  /\ msg_queue # <<>>
                  /\ msg_queue' = Tail(msg_queue)
                  /\ IF Head(msg_queue) = COMMAND_FINISHED
                       THEN /\ consumer'[c].pc = "finish"
                            /\ consumer'[c].yielded = consumer[c].yielded
                       ELSE /\ consumer'[c].pc = "get"
                            /\ consumer'[c].yielded =
                                   Append(consumer[c].yielded, Head(msg_queue))
      ]_vars

\* A sequence delivered first a message left over from the command before,
\* then one of its own.
C9_Witness ==
    \E c \in Callers :
        /\ consumer[c].pc = "done"
        /\ Len(consumer[c].yielded) = 2
        /\ consumer[c].yielded[1].of < consumer[c].id
        /\ consumer[c].yielded[2].of = consumer[c].id

\* C10: after restart_persistent the process runs with the arguments it was
\* first launched with, and is_persistent_alive() holds.
C10_RestartKeepsLaunchArgs ==
    (persistent.gen > 1) =>
        /\ persistent.launched = InitialLaunch
        /\ persistent.returncode = None

\* The wait of issue n can only complete through its secret: the sentinel
\* of n has been executed and has connected to the listener of n.
SentinelExecuted(n) == n \in Issues /\ listener[n].connected

\* C19: once the sentinel of the command being waited for has been executed,
\* the sequence of that command eventually ends, and it ends with success
\* true; and a wait whose writes met no pipe error does not complete unless
\* its sentinel was executed.
C19_IssueLiveness ==
    /\ \A c \in SerialCallers :
          SentinelExecuted(consumer[c].id) ~> (consumer[c].pc = "done")
    /\ [](\A c \in SerialCallers :
            /\ (consumer[c].pc = "done" /\ SentinelExecuted(consumer[c].id)) =>
                   consumer[c].flag
            /\ (worker[c].sent /\ worker[c].pc \notin {"await"}) =>
                   SentinelExecuted(consumer[c].id))

\* A command succeeded on the first process; after the restart the wait of
\* the next one stays blocked, its sentinel executed without connecting.
C19_Witness ==
    \E c \in SerialCallers :
        /\ consumer[c].id = 2
        /\ listener[1].pc = "closed"
        /\ worker[c].pc = "await"
        /\ ~SentinelExecuted(2)
        /\ stdin.pipe = <<>> /\ stdin.buf = <<>>
        /\ ~persistent.exited

\* C20: when the wait of a command is over (returned or raised), the
\* listener thread started for it has ended and its socket is closed.
C20_ListenerReleased ==
    \A c \in Callers :
        ( /\ worker[c].pc \in {"set", "put", "end", "raised"}
          /\ listener[consumer[c].id].pc # "none" )
        => listener[consumer[c].id].pc = "closed"

(***************************************************************************)
(* Claims about an execution                                               *)
(***************************************************************************)

\* The flags of the commands run so far are all true.
AllSucceeded(flags) == \A i \in DOMAIN flags : flags[i]

\* C15: run_until_complete issues the commands in list order, forwards to
\* the logger every message the sequences yield, returns -1 at the first
\* command whose flag is false without issuing a later one, and returns 0
\* only when every command of the list has succeeded.
C15_RunUntilComplete ==
    /\ hist.issued <= Len(run.commands)
    /\ \A c \in RunCallers :
          run.pc \in {"iter", "check"} =>
              /\ hist.issued = run.next
              /\ consumer[c].id = run.next
              /\ consumer[c].cmd = run.commands[run.next]
              /\ Len(run.flags) = run.next - 1
              /\ AllSucceeded(run.flags)
              /\ Len(run.logged) >= Len(consumer[c].yielded)
              /\ SubSeq(run.logged, Len(run.logged) - Len(consumer[c].yielded) + 1,
                        Len(run.logged)) = consumer[c].yielded
    /\ (run.pc = "returned" /\ run.ret = <<-1>>) =>
          /\ Len(run.flags) = hist.issued
          /\ ~run.flags[Len(run.flags)]
          /\ AllSucceeded(SubSeq(run.flags, 1, Len(run.flags) - 1))
          /\ hist.written \subseteq 1..hist.issued
    /\ (run.pc = "returned" /\ run.ret = <<0>>) =>
          /\ Len(run.flags) = Len(run.commands)
          /\ hist.issued = Len(run.commands)
          /\ AllSucceeded(run.flags)

\* The first command succeeded and was forwarded, the second failed and
\* ended the run while a command of the list was left.
C15_Witness ==
    /\ run.pc = "returned"
    /\ run.ret = <<-1>>
    /\ run.flags = <<TRUE, FALSE>>
    /\ Len(run.logged) > 2

\* C16: with no manager (launch failure), run_until_complete and
\* stop_execution raise nothing.
C16_NoManagerNoException ==
    run.pm = None => (run.pc # "raised" /\ ~run.stop_raised)

\* C17: each interrupt_persistent call sends at most three signals, and the
\* call itself sends none: it returns once the thread is started.
C17_InterruptIsAsyncAndBounded ==
    /\ [](\A t \in DOMAIN signaller : signaller[t].sent <= 3)
    /\ [][Len(signaller') > Len(signaller) =>
              /\ \A t \in DOMAIN signaller : signaller'[t] = signaller[t]
              /\ signaller'[Len(signaller')].sent = 0]_vars

\* The thread of a call has gone through its whole loop while the command
\* it interrupts is still being waited for.
C17_Witness ==
    /\ Len(signaller) >= 1
    /\ signaller[1].sent = 3
    /\ run.pc = "iter"

(***************************************************************************)
(* Claims about the registry's operations by key                           *)
(***************************************************************************)

\* The step by which a restart, interrupt or issue call enters the registry.
KeyedCallStep ==
    /\ kcall.pc = "none"
    /\ kcall'.pc # "none"

\* C18: restart, interrupt and issue on a key the registry does not hold
\* change neither the registry nor the manager nor its signalling, and the
\* issue sequence is empty; on a key it holds they are carried out by the
\* stored manager, and the registry's sequence is the manager's sequence.
C18_KeyedOperations ==
    /\ [][KeyedCallStep =>
            IF persistent_managers[kcall'.key] = NoPM
            THEN /\ UNCHANGED <<regVars, mgrVars, signaller>>
                 /\ kcall'.pc = "return"
                 /\ kcall'.forwarded = <<>>
            ELSE /\ UNCHANGED regVars
                 /\ kcall'.op = "restart" =>
                        /\ persistent'.exited
                        /\ hist'.restarts = hist.restarts + 1
                 /\ kcall'.op = "interrupt" =>
                        /\ Len(signaller') = Len(signaller) + 1
                        /\ UNCHANGED mgrVars
                 /\ kcall'.op = "issue" =>
                        /\ hist'.issued = hist.issued + 1
                        /\ \E c \in RunCallers : consumer'[c].pc = "get"]_vars
    /\ [](\A c \in RunCallers :
            (kcall.op = "issue" /\ persistent_managers[kcall.key] # NoPM) =>
                /\ kcall.forwarded = consumer[c].yielded
                /\ (kcall.pc = "iter") = (consumer[c].pc = "get")
                /\ (kcall.pc = "finish") = (consumer[c].pc = "finish"))

\* An issue on the stored key has forwarded a message and ended, while
\* another key is absent.
C18_Witness ==
    /\ kcall.op = "issue"
    /\ kcall.pc = "return"
    /\ persistent_managers[kcall.key] # NoPM
    /\ Len(kcall.forwarded) >= 1
    /\ \E k \in Keys : persistent_managers[k] = NoPM

(***************************************************************************)
(* Claims about the sentinel wait                                          *)
(***************************************************************************)

\* The step of the loop of lines 138-141 taken by the wait of caller c.
AwaitStep(c) ==
    /\ worker[c].pc = "await"
    /\ listener[consumer[c].id].queue # <<>>
    /\ listener'[consumer[c].id].queue = Tail(listener[consumer[c].id].queue)
    /\ listener'[consumer[c].id].inbox = listener[consumer[c].id].inbox

\* C21: the secrets of different waits differ; a wait leaves its loop only
\* on an entry equal to its own secret, and any other entry is dropped and
\* leaves it waiting; success is reported only by a wait that saw its secret.
C21_OnlyOwnSecretCompletes ==
    /\ [](\A i \in Issues : \A j \in Issues \ {i} : Secret(i) # Secret(j))
    /\ [](\A c \in SerialCallers :
            (worker[c].pc \in {"set", "put", "end"} /\ worker[c].result) => worker[c].seen)
    /\ [][\A c \in SerialCallers :
            /\ (worker[c].pc = "await" /\ worker'[c].pc # "await") =>
                  /\ listener[consumer[c].id].queue # <<>>
                  /\ Head(listener[consumer[c].id].queue) = Secret(consumer[c].id)
            /\ (AwaitStep(c) /\ Head(listener[consumer[c].id].queue) # Secret(consumer[c].id)) =>
                  worker'[c] = worker[c]]_vars

\* The second wait has dropped everything a connection brought (partial
\* chunks of its secret, the secret of the first wait), its listener has
\* ended, and it is still waiting.
C21_Witness ==
    \E c \in SerialCallers :
        /\ consumer[c].id = 2
        /\ worker[c].pc = "await"
        /\ listener[2].pc = "closed"
        /\ listener[2].queue = <<>>
        /\ listener[2].inbox = <<>>

(***************************************************************************)
(* Claims about the order of the protocol                                  *)
(***************************************************************************)

\* The sentinel of the command of caller c has been handed to stdin.write.
SentinelWritten(c) ==
    \/ worker[c].pc \in {"sflush", "await", "join"}
    \/ worker[c].sent
    \/ \E k \in DOMAIN (stdin.buf \o stdin.pipe) :
          /\ (stdin.buf \o stdin.pipe)[k].kind = "sentinel"
          /\ (stdin.buf \o stdin.pipe)[k].of = consumer[c].id

\* C22: the sentinel of a command is written only when the command itself
\* was written and flushed and the listener of the wait is listening; when
\* the command could not be written, no listener exists for it and no
\* sentinel is written.
C22_ProtocolOrder ==
    \A c \in SerialCallers :
        /\ SentinelWritten(c) =>
              /\ worker[c].wrote
              /\ listener[consumer[c].id].pc \in {"accept", "closed"}
        /\ (worker[c].pc \in {"set", "put", "end", "raised"} /\ ~worker[c].wrote) =>
              /\ listener[consumer[c].id].pc = "none"
              /\ ~SentinelWritten(c)

\* The sentinel has just been written, after the flushed command, to a
\* listener that is accepting.
C22_Witness ==
    \E c \in SerialCallers :
        /\ worker[c].pc = "sflush"
        /\ worker[c].wrote
        /\ listener[consumer[c].id].pc = "accept"
        /\ \E k \in DOMAIN stdin.buf : stdin.buf[k].kind = "sentinel"

(***************************************************************************)
(* Claims about expand_cmd_line_args                                       *)
(***************************************************************************)

\* What the argument contributes to the result under mapping m: its string
\* when it is not a LabelArg, the mapped value when it is one and the value
\* is not empty, nothing otherwise.
Contribution(arg, m) ==
    IF arg.cls # "LabelArg" THEN <<arg.arg>>
    ELSE IF arg.arg \in DOMAIN m /\ m[arg.arg] # "" THEN <<m[arg.arg]>>
    ELSE <<>>

\* The warnings the argument causes: one when it is a LabelArg whose label
\* is absent from m, none otherwise.
Warnings(arg, m) ==
    IF arg.cls = "LabelArg" /\ arg.arg \notin DOMAIN m THEN <<Warning(arg)>> ELSE <<>>

RECURSIVE Contributions(_, _)
Contributions(args, m) ==
    IF args = <<>> THEN <<>>
    ELSE Contribution(Head(args), m) \o Contributions(Tail(args), m)

RECURSIVE AllWarnings(_, _)
AllWarnings(args, m) ==
    IF args = <<>> THEN <<>>
    ELSE Warnings(Head(args), m) \o AllWarnings(Tail(args), m)

\* C24: a call that returned, returned the contributions of its arguments
\* in the order of the arguments (a non-LabelArg its string, a LabelArg with
\* a non-empty mapped value that value, a LabelArg that is absent or mapped
\* to an empty value nothing), emitted exactly one warning for each absent
\* LabelArg and no other, and left the list and the mapping as given.
C24_ExpansionInOrder ==
    expansion.pc = "returned" =>
        /\ expansion.ret = Contributions(expansion.given[1], expansion.given[2])
        /\ expansion.msg_warning = AllWarnings(expansion.given[1], expansion.given[2])
        /\ expansion.args = expansion.given[1]
        /\ expansion.label_to_arg = expansion.given[2]

\* A returned call whose arguments were a literal, a LabelArg mapped to a
\* value, a LabelArg mapped to "" and an absent LabelArg.
C24_Witness ==
    /\ expansion.pc = "returned"
    /\ \E m \in Mappings :
        /\ expansion.label_to_arg = m
        /\ \E j, k, l, n \in DOMAIN expansion.args :
            /\ ~isinstance_LabelArg(expansion.args[j])
            /\ isinstance_LabelArg(expansion.args[k])
            /\ str(expansion.args[k]) \in DOMAIN m
            /\ m[str(expansion.args[k])] # ""
            /\ isinstance_LabelArg(expansion.args[l])
            /\ str(expansion.args[l]) \in DOMAIN m
            /\ m[str(expansion.args[l])] = ""
            /\ isinstance_LabelArg(expansion.args[n])
            /\ str(expansion.args[n]) \notin DOMAIN m
    /\ Len(expansion.ret) = 2
    /\ Len(expansion.msg_warning) = 1

====
